---- MODULE Spec2Model ----
(***************************************************************************)
(* Storadapt: a facade over a key-value storage backend that serializes    *)
(* values and addresses nested fields with dot paths.                      *)
(*                                                                         *)
(* Strings that the code takes apart (addresses, path segments, storage    *)
(* keys) are sequences of one-character strings, so that indexOf, slice,   *)
(* split and the index regex are computed, not assumed.                    *)
(***************************************************************************)
EXTENDS Integers, Sequences, FiniteSets, TLC

\* ------------------------------------------------------------ JS values

Undef == [t |-> "undefined"]
Null == [t |-> "null"]
\* an array slot left by `delete arr[i]`: reads as undefined, is no own property
Hole == [t |-> "hole"]
Str(s) == [t |-> "string", s |-> s]
Num(n) == [t |-> "number", n |-> n]
Bool(b) == [t |-> "boolean", b |-> b]
Arr(e) == [t |-> "array", e |-> e]
Obj(p) == [t |-> "object", p |-> p]

EmptyObj == Obj(<<>>)
EmptyArr == Arr(<<>>)

\* x == null in JS: null, undefined, or a hole read as undefined
IsNullish(v) == v.t \in {"undefined", "null", "hole"}

\* a function with one more (or one overwritten) property
PutProp(p, k, v) == [x \in (DOMAIN p) \cup {k} |-> IF x = k THEN v ELSE p[x]]

\* a function without property k
DelProp(p, k) == [x \in (DOMAIN p) \ {k} |-> p[x]]

\* ------------------------------------------------------------ util.ts

isString(value) == value.t = "string"

isObject(value) == value.t = "object"

IsArray(value) == value.t = "array"

Digits == {"0", "1", "2", "3", "4", "5", "6", "7", "8", "9"}

\* path[i] of JS for an index that may be out of range coerces to this text
UndefinedText == <<"u", "n", "d", "e", "f", "i", "n", "e", "d">>

\* variant of isArrayIndex: no leading zero, /^(0|[1-9]\d*)$/
isArrayIndex_NoLeadingZero(str) ==
    /\ Len(str) > 0
    /\ \A i \in 1..Len(str) : str[i] \in Digits
    /\ Len(str) > 1 => Head(str) # "0"

\* variant of isArrayIndex: a sign is allowed, /^-?\d+$/
isArrayIndex_Signed(str) ==
    /\ Len(str) > 0
    /\ IF Head(str) = "-"
       THEN Len(str) > 1 /\ \A i \in 2..Len(str) : str[i] \in Digits
       ELSE \A i \in 1..Len(str) : str[i] \in Digits

\* /^\d+$/.test(str)
isArrayIndex(str) == Len(str) > 0 /\ \A i \in 1..Len(str) : str[i] \in Digits

DigitValue(c) == CHOOSE n \in 0..9 : ToString(n) = c

\* Number.parseInt(segment, 10) on a segment: an optional sign, then digits
RECURSIVE ParseDigits(_, _)
ParseDigits(str, acc) ==
    IF Len(str) = 0 THEN acc
    ELSE ParseDigits(Tail(str), acc * 10 + DigitValue(Head(str)))

parseInt(str) ==
    IF Len(str) > 0 /\ Head(str) = "-" THEN 0 - ParseDigits(Tail(str), 0)
    ELSE ParseDigits(str, 0)

\* String.prototype.indexOf('.'): 0-based, -1 when there is none
indexOfDot(key) ==
    IF \E i \in 1..Len(key) : key[i] = "."
    THEN (CHOOSE i \in 1..Len(key) :
              key[i] = "." /\ \A j \in 1..(i - 1) : key[j] # ".") - 1
    ELSE -1

\* key.slice(from, to) with 0-based from (inclusive) and to (exclusive)
slice(key, from, to) == SubSeq(key, from + 1, to)

\* path.split('.'): the pieces between dots, empty pieces included
RECURSIVE split(_)
split(path) ==
    IF indexOfDot(path) = -1 THEN <<path>>
    ELSE <<slice(path, 0, indexOfDot(path))>>
         \o split(slice(path, indexOfDot(path) + 1, Len(path)))

\* path.split('.').filter(Boolean)
parsePath(path) == SelectSeq(split(path), LAMBDA s : Len(s) > 0)

\* path[i] with a 0-based index as JS reads it
PathAt(path, i) == IF i >= 0 /\ i < Len(path) THEN path[i + 1] ELSE UndefinedText

\* ------------------------------------------------------- traversePath

\* variant of Raise: the error is thrown whatever the callback answers
Raise_IgnoresAnswer(kind, node, cb) ==
    [status |-> "throw", error |-> kind, node |-> node, value |-> Undef,
     calls |-> IF cb = "none" THEN 0 ELSE 1]

\* a raised error, as shouldThrowError decides: cb is "none" (no callback),
\* "true" or "false" (what the callback answers)
Raise(kind, node, cb) ==
    [status |-> IF cb = "false" THEN "suppressed" ELSE "throw",
     error |-> kind, node |-> node, value |-> Undef,
     calls |-> IF cb = "none" THEN 0 ELSE 1]

\* variant of PadTo: the skipped slots are filled with null
RECURSIVE PadTo_Null(_, _)
PadTo_Null(e, index) == IF Len(e) > index THEN e ELSE PadTo_Null(Append(e, Null), index)

\* current.push(undefined) while current.length <= index
RECURSIVE PadTo(_, _)
PadTo(e, index) == IF Len(e) > index THEN e ELSE PadTo(Append(e, Undef), index)

\* the container created for a missing slot, chosen by the next segment
NewContainer(isNextArray) == IF isNextArray THEN EmptyArr ELSE EmptyObj

\* variant of IsNextArray: the kind is chosen by the segment at i itself
IsNextArray_Current(path, i) == isArrayIndex(PathAt(path, i))

\* isNextArray of the loop at position i
IsNextArray(path, i) ==
    IF i < Len(path) - 1 THEN isArrayIndex(PathAt(path, i + 1)) ELSE FALSE

\* current[index] = isNextArray ? [] : {} when the slot is null or undefined
FillSlot(e, index, isNextArray) ==
    IF IsNullish(e[index + 1])
    THEN [e EXCEPT ![index + 1] = NewContainer(isNextArray)]
    ELSE e

\* variant of FillProp: the `in` test is left out, a property that is there is
\* replaced by a fresh container
FillProp_Always(p, segment, isNextArray) ==
    PutProp(p, segment, NewContainer(isNextArray))

\* current[segment] = isNextArray ? [] : {} when the property is missing
FillProp(p, segment, isNextArray) ==
    IF segment \in DOMAIN p THEN p ELSE PutProp(p, segment, NewContainer(isNextArray))

\* the array `current` once the rest of the loop has run below its slot
BackIntoSlot(e, index, rest) ==
    [rest EXCEPT !.node = Arr([e EXCEPT ![index + 1] = rest.node])]

\* variant of BackIntoProp: the object is left with the one property that
\* was walked through
BackIntoProp_Fresh(p, segment, rest) ==
    [rest EXCEPT !.node = Obj(segment :> rest.node)]

\* the object `current` once the rest of the loop has run below its property
BackIntoProp(p, segment, rest) ==
    [rest EXCEPT !.node = Obj(PutProp(p, segment, rest.node))]

\* The loop of traversePath from 0-based position i on. node is `current` as
\* the loop leaves it (createPath mutates it in place), value what is returned.
RECURSIVE Walk(_, _, _, _, _, _)
\* current = current[index], the null check, the next iteration
IntoSlot(e, index, path, i, endIndex, createPath, cb) ==
    IF IsNullish(e[index + 1]) /\ i < endIndex - 1
    THEN Raise("NullInPath", Arr(e), cb)
    ELSE BackIntoSlot(e, index,
                      Walk(e[index + 1], path, i + 1, endIndex, createPath, cb))

\* current = current[segment], the null check, the next iteration
IntoProp(p, segment, path, i, endIndex, createPath, cb) ==
    IF IsNullish(p[segment]) /\ i < endIndex - 1
    THEN Raise("NullInPath", Obj(p), cb)
    ELSE BackIntoProp(p, segment,
                      Walk(p[segment], path, i + 1, endIndex, createPath, cb))

\* variant of WalkIndex: with createPath a node that is not an array is
\* replaced by an empty one
WalkIndex_Coerces(current, index, path, i, endIndex, createPath, cb) ==
    IF ~IsArray(current) /\ ~createPath THEN Raise("NotAnArray", current, cb)
    ELSE IF index < 0 THEN Raise("NegativeIndex", current, cb)
    ELSE IF ~IsArray(current)
    THEN IntoSlot(FillSlot(PadTo(<<>>, index), index, IsNextArray(path, i)),
                  index, path, i, endIndex, createPath, cb)
    ELSE IF index >= Len(current.e) /\ ~createPath
    THEN Raise("IndexOutOfBounds", current, cb)
    ELSE IF IsNullish(PadTo(current.e, index)[index + 1]) /\ ~createPath
    THEN Raise("PathNotFound", current, cb)
    ELSE IntoSlot(FillSlot(PadTo(current.e, index), index, IsNextArray(path, i)),
                  index, path, i, endIndex, createPath, cb)

\* the branch `if (isCurrentArray)`
WalkIndex(current, index, path, i, endIndex, createPath, cb) ==
    IF ~IsArray(current) THEN Raise("NotAnArray", current, cb)
    ELSE IF index < 0 THEN Raise("NegativeIndex", current, cb)
    ELSE IF index >= Len(current.e) /\ ~createPath
    THEN Raise("IndexOutOfBounds", current, cb)
    ELSE IF IsNullish(PadTo(current.e, index)[index + 1]) /\ ~createPath
    THEN Raise("PathNotFound", current, cb)
    ELSE IntoSlot(FillSlot(PadTo(current.e, index), index, IsNextArray(path, i)),
                  index, path, i, endIndex, createPath, cb)

\* the branch `else`: an object property
WalkKey(current, segment, path, i, endIndex, createPath, cb) ==
    IF ~isObject(current) THEN Raise("NotAnObject", current, cb)
    ELSE IF segment \notin DOMAIN current.p /\ ~createPath
    THEN Raise("PropertyMissing", current, cb)
    ELSE IntoProp(FillProp(current.p, segment, IsNextArray(path, i)),
                  segment, path, i, endIndex, createPath, cb)

Walk(current, path, i, endIndex, createPath, cb) ==
    IF i >= endIndex
    THEN [status |-> "ok", error |-> "none", node |-> current,
          value |-> current, calls |-> 0]
    ELSE IF isArrayIndex(PathAt(path, i))
    THEN WalkIndex(current, parseInt(PathAt(path, i)), path, i, endIndex,
                   createPath, cb)
    ELSE WalkKey(current, PathAt(path, i), path, i, endIndex, createPath, cb)

traversePath(obj, path, stopBeforeLast, createPath, cb) ==
    Walk(obj, path, 0, IF stopBeforeLast THEN Len(path) - 1 ELSE Len(path),
         createPath, cb)

\* ------------------------------------------------- stored text, JSON

\* A stored string is kept in a normal form: either characters that are not a
\* JSON text, Chars(s), or the JSON document its characters spell, Json(doc)
\* (JSON.stringify and String(number|boolean|null) write no white space, so a
\* document has one spelling).
Chars(s) == [kind |-> "chars", s |-> s]
Json(doc) == [kind |-> "json", doc |-> doc]

\* the string values of the model whose characters are a JSON text
JsonLiterals == {"1", "true"}

JsonLiteralDoc(s) == IF s = "1" THEN Num(1) ELSE Bool(TRUE)

\* the stored text of a JS string written as it is
TextOfString(s) == IF s \in JsonLiterals THEN Json(JsonLiteralDoc(s)) ELSE Chars(s)

\* String(value) for a value that is neither string, object nor array
StringOf(value) ==
    IF value.t = "undefined" THEN Chars("undefined") ELSE Json(value)

\* JSON.parse(str) succeeds
isJsonString(str) == str.kind = "json"

JsonKey == <<"j", "s", "o", "n">>
MetaKey == <<"m", "e", "t", "a">>

\* the decimal text of an array index
RECURSIVE IndexText(_)
IndexText(n) ==
    IF n < 10 THEN <<ToString(n)>> ELSE IndexText(n \div 10) \o <<ToString(n % 10)>>

\* superjson's walker copies an array entry by entry (Object.entries) into a
\* new array: a hole is no entry, so holes at the end are not copied at all
RECURSIVE DropTrailingHoles(_)
DropTrailingHoles(e) ==
    IF Len(e) > 0 /\ e[Len(e)].t = "hole"
    THEN DropTrailingHoles(SubSeq(e, 1, Len(e) - 1))
    ELSE e

\* superjson's walker: the plain JSON tree of a value; undefined becomes null
\* (annotated), a hole between entries stays a hole of the copy and
\* JSON.stringify writes it as null
RECURSIVE Plain(_)
PlainList(e) == Arr([i \in DOMAIN e |-> Plain(e[i])])

Plain(v) ==
    IF v.t \in {"undefined", "hole"} THEN Null
    ELSE IF v.t = "array" THEN PlainList(DropTrailingHoles(v.e))
    ELSE IF v.t = "object" THEN Obj([k \in DOMAIN v.p |-> Plain(v.p[k])])
    ELSE v

\* superjson's value annotations: the paths that hold undefined
RECURSIVE Annotations(_, _)
Annotations(v, prefix) ==
    IF v.t = "undefined" THEN {prefix}
    ELSE IF v.t = "array"
    THEN UNION {Annotations(v.e[i], Append(prefix, IndexText(i - 1))) : i \in DOMAIN v.e}
    ELSE IF v.t = "object"
    THEN UNION {Annotations(v.p[k], Append(prefix, k)) : k \in DOMAIN v.p}
    ELSE {}

\* {json} or {json, meta}: meta is written only when there are annotations
Payload(json, ann) ==
    IF ann = {} THEN (JsonKey :> json)
    ELSE (JsonKey :> json) @@ (MetaKey :> [t |-> "annotations", undef |-> ann])

\* superjson.stringify(value) = JSON.stringify({json, meta?})
superjsonStringify(value) ==
    Json(Obj(Payload(Plain(value), Annotations(value, <<>>))))

\* applyValueAnnotations: undefined put back at the annotated paths
RECURSIVE Restore(_, _, _)
Restore(doc, prefix, ann) ==
    IF prefix \in ann THEN Undef
    ELSE IF doc.t = "array"
    THEN Arr([i \in DOMAIN doc.e |->
                 Restore(doc.e[i], Append(prefix, IndexText(i - 1)), ann)])
    ELSE IF doc.t = "object"
    THEN Obj([k \in DOMAIN doc.p |-> Restore(doc.p[k], Append(prefix, k), ann)])
    ELSE doc

\* superjson.parse(str) = deserialize(JSON.parse(str)): `const {json, meta} =
\* payload` throws on null, and reads undefined from a payload with no json
superjsonParse(str) ==
    IF str.doc.t = "null" THEN [status |-> "throw", value |-> Undef]
    ELSE IF str.doc.t # "object" \/ JsonKey \notin DOMAIN str.doc.p
    THEN [status |-> "ok", value |-> Undef]
    ELSE [status |-> "ok",
          value |-> Restore(str.doc.p[JsonKey], <<>>,
                            IF MetaKey \in DOMAIN str.doc.p
                            THEN str.doc.p[MetaKey].undef ELSE {})]

\* ------------------------------------------------------- the backend

\* The in-memory adapter of the test suite: a JS object used as a map, whose
\* keys enumerate in insertion order. items is a sequence of [key, value].
\* kind is "memory", or "faulty" for the adapter whose every method throws.

HasKey(items, key) == \E i \in DOMAIN items : items[i].key = key

ItemOf(items, key) == (CHOOSE i \in DOMAIN items : items[i].key = key)

\* the result of a backend call: threw, or returned value
Threw == [threw |-> TRUE, value |-> Undef]
Returned(v) == [threw |-> FALSE, value |-> v]

NoItem == [kind |-> "null"]

adapterGetItem(kind, items, key) ==
    IF kind = "faulty" THEN Threw
    ELSE Returned(IF HasKey(items, key) THEN items[ItemOf(items, key)].value ELSE NoItem)

\* store[key] = value: a new key goes last, an old key keeps its place
adapterSetItem(kind, items, key, value) ==
    IF kind = "faulty" THEN Threw
    ELSE Returned(IF HasKey(items, key)
                  THEN [items EXCEPT ![ItemOf(items, key)].value = value]
                  ELSE Append(items, [key |-> key, value |-> value]))

adapterRemoveItem(kind, items, key) ==
    IF kind = "faulty" THEN Threw
    ELSE Returned(SelectSeq(items, LAMBDA it : it.key # key))

adapterClear(kind, items) == IF kind = "faulty" THEN Threw ELSE Returned(<<>>)

adapterLength(kind, items) == IF kind = "faulty" THEN Threw ELSE Returned(Len(items))

\* a storage key as the JS string the caller gets
KeyName(key) == [t |-> "string", c |-> key]

\* Object.keys(store)[index] || null: the empty key is falsy
adapterKey(kind, items, index) ==
    IF kind = "faulty" THEN Threw
    ELSE Returned(IF index >= 0 /\ index < Len(items) /\ Len(items[index + 1].key) > 0
                  THEN KeyName(items[index + 1].key) ELSE Null)

\* ------------------------------------------------ Storadapt, private

\* variant of DefaultOrNull: `?? null` is left out
DefaultOrNull_Raw(defaultValue) == defaultValue

\* options?.defaultValue ?? null
DefaultOrNull(defaultValue) == IF IsNullish(defaultValue) THEN Null ELSE defaultValue

_validateFirstSegment(value, firstSegment) ==
    IF isArrayIndex(firstSegment) THEN IsArray(value) ELSE isObject(value)

_serialize(value) ==
    IF isString(value) THEN TextOfString(value.s)
    ELSE IF isObject(value) \/ IsArray(value) THEN superjsonStringify(value)
    ELSE StringOf(value)

\* the outcome of a private method: status "ok" or "throw" (with the error)
Thrown(error) == [status |-> "throw", error |-> error]

\* `isJsonString(raw) ? superjson.parse(raw) : raw`
ParseRaw(rawValue) ==
    IF isJsonString(rawValue) THEN superjsonParse(rawValue)
    ELSE [status |-> "ok", value |-> Str(rawValue.s)]

\* what _parseDeepPath returns: found is FALSE where it returns null, warn is
\* what console.warn got
PathInfo(storageKey, pathSegments, found, warn, rootValue) ==
    [status |-> "ok", error |-> "none", found |-> found, warn |-> warn,
     storageKey |-> storageKey, pathSegments |-> pathSegments,
     rootValue |-> rootValue]

\* variant of ParsedRoot: a root of the wrong kind is replaced by the empty
\* container the first segment asks for
ParsedRoot_Coerce(storageKey, pathSegments, parsed) ==
    IF parsed.status = "throw" THEN Thrown("TypeError")
    ELSE IF ~_validateFirstSegment(parsed.value, PathAt(pathSegments, 0))
    THEN PathInfo(storageKey, pathSegments, TRUE, "none",
                  IF isArrayIndex(PathAt(pathSegments, 0)) THEN EmptyArr ELSE EmptyObj)
    ELSE PathInfo(storageKey, pathSegments, TRUE, "none", parsed.value)

\* steps 3 and 4: the parsed root, validated against the first segment
ParsedRoot(storageKey, pathSegments, parsed) ==
    IF parsed.status = "throw" THEN Thrown("TypeError")
    ELSE IF ~_validateFirstSegment(parsed.value, PathAt(pathSegments, 0))
    THEN PathInfo(storageKey, pathSegments, FALSE, "ShapeMismatch", Undef)
    ELSE PathInfo(storageKey, pathSegments, TRUE, "none", parsed.value)

\* variant of LoadedRoot: the root made for a key that does not exist is
\* always a map
LoadedRoot_AlwaysMap(storageKey, pathSegments, got, operation) ==
    IF got.threw THEN Thrown("BackendFailure")
    ELSE IF got.value = NoItem
    THEN IF operation = "get"
         THEN PathInfo(storageKey, pathSegments, FALSE, "none", Undef)
         ELSE IF operation = "remove"
         THEN PathInfo(storageKey, pathSegments, FALSE, "KeyMissing", Undef)
         ELSE PathInfo(storageKey, pathSegments, TRUE, "none", EmptyObj)
    ELSE ParsedRoot(storageKey, pathSegments, ParseRaw(got.value))

\* step 2: the raw value, and a key that does not exist
LoadedRoot(storageKey, pathSegments, got, operation) ==
    IF got.threw THEN Thrown("BackendFailure")
    ELSE IF got.value = NoItem
    THEN IF operation = "get"
         THEN PathInfo(storageKey, pathSegments, FALSE, "none", Undef)
         ELSE IF operation = "remove"
         THEN PathInfo(storageKey, pathSegments, FALSE, "KeyMissing", Undef)
         ELSE PathInfo(storageKey, pathSegments, TRUE, "none",
                       IF isArrayIndex(PathAt(pathSegments, 0))
                       THEN EmptyArr ELSE EmptyObj)
    ELSE ParsedRoot(storageKey, pathSegments, ParseRaw(got.value))

\* variant of _parseDeepPath: the storage key ends at the last dot of the
\* address, not at the first
LastDot(address) ==
    CHOOSE i \in 0..(Len(address) - 1) :
        /\ address[i + 1] = "."
        /\ \A j \in (i + 2)..Len(address) : address[j] # "."

_parseDeepPath_LastDot(kind, items, address, dotIndex, operation) ==
    LoadedRoot(slice(address, 0, LastDot(address)),
               parsePath(slice(address, LastDot(address) + 1, Len(address))),
               adapterGetItem(kind, items, slice(address, 0, LastDot(address))),
               operation)

_parseDeepPath(kind, items, address, dotIndex, operation) ==
    LoadedRoot(slice(address, 0, dotIndex),
               parsePath(slice(address, dotIndex + 1, Len(address))),
               adapterGetItem(kind, items, slice(address, 0, dotIndex)),
               operation)

\* adapter.setItem's result as _saveToStorage leaves it: the new items, or throws
Saved(put) ==
    IF put.threw THEN Thrown("BackendFailure")
    ELSE [status |-> "ok", error |-> "none", items |-> put.value]

_saveToStorage(kind, items, storageKey, value) ==
    Saved(adapterSetItem(kind, items, storageKey, superjsonStringify(value)))

\* the value of a private getter
Got(value) == [status |-> "ok", error |-> "none", value |-> value]

SimpleValue(got, defaultValue) ==
    IF got.threw THEN Thrown("BackendFailure")
    ELSE IF got.value = NoItem THEN Got(DefaultOrNull(defaultValue))
    ELSE IF ParseRaw(got.value).status = "throw" THEN Thrown("TypeError")
    ELSE Got(ParseRaw(got.value).value)

_getSimple(kind, items, storageKey, defaultValue) ==
    SimpleValue(adapterGetItem(kind, items, storageKey), defaultValue)

\* error is what traversePath raised, also when the default value hid it
DeepValue(r, defaultValue) ==
    IF r.status = "throw"
    THEN IF defaultValue.t # "undefined"
         THEN [status |-> "ok", error |-> r.error, value |-> defaultValue]
         ELSE Thrown(r.error)
    ELSE IF (r.value.t \in {"undefined", "null"}) /\ defaultValue.t # "undefined"
    THEN [status |-> "ok", error |-> r.error, value |-> defaultValue]
    ELSE [status |-> "ok", error |-> r.error, value |-> r.value]

\* variant of _getDeep: the traversal stops before the last segment
_getDeep_StopsEarly(obj, path, defaultValue) ==
    DeepValue(traversePath(obj, path, TRUE, FALSE,
                           IF defaultValue.t # "undefined" THEN "false" ELSE "true"),
              defaultValue)

_getDeep(obj, path, defaultValue) ==
    DeepValue(traversePath(obj, path, FALSE, FALSE,
                           IF defaultValue.t # "undefined" THEN "false" ELSE "true"),
              defaultValue)

\* parent is a reference into obj: the node at path[0 .. n-2] of the traversed
\* tree is the parent as setOrRemove leaves it
RECURSIVE AssignAt(_, _, _, _)
AssignAt(node, path, i, newParent) ==
    IF i >= Len(path) - 1 THEN newParent
    ELSE IF isArrayIndex(PathAt(path, i))
    THEN Arr([node.e EXCEPT ![parseInt(PathAt(path, i)) + 1] =
                  AssignAt(node.e[parseInt(PathAt(path, i)) + 1], path, i + 1,
                           newParent)])
    ELSE Obj([node.p EXCEPT ![PathAt(path, i)] =
                  AssignAt(node.p[PathAt(path, i)], path, i + 1, newParent)])

\* a throw of _setDeep; obj is the tree as the call leaves it
SetThrown(error, obj) == [status |-> "throw", error |-> error, obj |-> obj]

\* variant of SetSlot: remove splices the slot out where the code deletes it
SetSlot_Splices(e, lastIndex, value, remove) ==
    IF remove THEN SubSeq(e, 1, lastIndex) \o SubSeq(e, lastIndex + 2, Len(e))
    ELSE [e EXCEPT ![lastIndex + 1] = value]

\* setOrRemove(parent, lastIndex) on the padded array
SetSlot(e, lastIndex, value, remove) ==
    [e EXCEPT ![lastIndex + 1] = IF remove THEN Hole ELSE value]

\* variant of SetProp: remove assigns undefined where the code deletes
SetProp_Undefines(p, lastSegment, value, remove) ==
    IF remove THEN PutProp(p, lastSegment, Undef) ELSE PutProp(p, lastSegment, value)

\* variant of SetProp: a property that is there is not assigned
SetProp_KeepsOld(p, lastSegment, value, remove) ==
    IF remove THEN DelProp(p, lastSegment)
    ELSE IF lastSegment \in DOMAIN p THEN p
    ELSE PutProp(p, lastSegment, value)

\* setOrRemove(parent, lastSegment)
SetProp(p, lastSegment, value, remove) ==
    IF remove THEN DelProp(p, lastSegment) ELSE PutProp(p, lastSegment, value)

\* variant of SetLastIndex: the bound test is `>` where the code has `>=`
SetLastIndex_OffByOne(t, path, lastIndex, value, remove, createPath) ==
    IF ~IsArray(t.value) THEN SetThrown("NotAnArray", t.node)
    ELSE IF lastIndex < 0 THEN SetThrown("NegativeIndex", t.node)
    ELSE IF lastIndex > Len(t.value.e) /\ ~createPath
    THEN SetThrown("IndexOutOfBounds", t.node)
    ELSE [status |-> "ok", error |-> "none",
          obj |-> AssignAt(t.node, path, 0,
                           Arr(SetSlot(PadTo(t.value.e, lastIndex), lastIndex,
                                       value, remove)))]

\* the branch `if (isArrayIndex(lastSegment))`; t is what traversePath left
SetLastIndex(t, path, lastIndex, value, remove, createPath) ==
    IF ~IsArray(t.value) THEN SetThrown("NotAnArray", t.node)
    ELSE IF lastIndex < 0 THEN SetThrown("NegativeIndex", t.node)
    ELSE IF lastIndex >= Len(t.value.e) /\ ~createPath
    THEN SetThrown("IndexOutOfBounds", t.node)
    ELSE [status |-> "ok", error |-> "none",
          obj |-> AssignAt(t.node, path, 0,
                           Arr(SetSlot(PadTo(t.value.e, lastIndex), lastIndex,
                                       value, remove)))]

\* the branch `else`
SetLastKey(t, path, lastSegment, value, remove) ==
    IF ~isObject(t.value) THEN SetThrown("NotAnObject", t.node)
    ELSE [status |-> "ok", error |-> "none",
          obj |-> AssignAt(t.node, path, 0,
                           Obj(SetProp(t.value.p, lastSegment, value, remove)))]

SetLast(t, path, value, remove, createPath) ==
    IF t.status = "throw" THEN SetThrown(t.error, t.node)
    ELSE IF isArrayIndex(PathAt(path, Len(path) - 1))
    THEN SetLastIndex(t, path, parseInt(PathAt(path, Len(path) - 1)), value,
                      remove, createPath)
    ELSE SetLastKey(t, path, PathAt(path, Len(path) - 1), value, remove)

\* `const { remove = false, createPath = false } = options || {}`: an option
\* that was not passed (undefined) takes its default
OptionOr(option, default) == IF option.t = "undefined" THEN default ELSE option.b

\* variant of _setDeep: createPath defaults to true
_setDeep_CreatesByDefault(obj, path, value, remove, createPath) ==
    SetLast(traversePath(obj, path, TRUE, OptionOr(createPath, TRUE), "none"),
            path, value, OptionOr(remove, FALSE), OptionOr(createPath, TRUE))

\* remove and createPath are the options as passed: undefined, or a boolean.
\* obj of the result is the tree as the call leaves it (mutated in place)
_setDeep(obj, path, value, remove, createPath) ==
    SetLast(traversePath(obj, path, TRUE, OptionOr(createPath, FALSE), "none"),
            path, value, OptionOr(remove, FALSE), OptionOr(createPath, FALSE))

\* ------------------------------------------------- Storadapt, public

\* What a call leaves: the backend's items, the value returned, whether an
\* error escaped to the caller, the error errorLogger got ("none" if none),
\* the error traversal raised (also when a default hid it), and console.warn.
Outcome(items, ret, logged, error, warn) ==
    [items |-> items, ret |-> ret, escaped |-> FALSE, logged |-> logged,
     error |-> error, warn |-> warn]

LengthOf(items, r) ==
    IF r.threw THEN Outcome(items, Num(0), "BackendFailure", "none", "none")
    ELSE Outcome(items, Num(r.value), "none", "none", "none")

length(kind, items) == LengthOf(items, adapterLength(kind, items))

KeyOf(items, r) ==
    IF r.threw THEN Outcome(items, Null, "BackendFailure", "none", "none")
    ELSE Outcome(items, r.value, "none", "none", "none")

key(kind, items, index) == KeyOf(items, adapterKey(kind, items, index))

\* get without a dot, with its catch
GetSimple(items, r, defaultValue) ==
    IF r.status = "throw"
    THEN Outcome(items, DefaultOrNull(defaultValue), r.error, "none", "none")
    ELSE Outcome(items, r.value, "none", "none", "none")

\* `return this._getDeep(...)` with get's catch
GetDeepValue(items, r, defaultValue) ==
    IF r.status = "throw"
    THEN Outcome(items, DefaultOrNull(defaultValue), r.error, r.error, "none")
    ELSE Outcome(items, r.value, "none", r.error, "none")

\* get with a dot, from the path info on
GetDeep(items, pathInfo, defaultValue) ==
    IF pathInfo.status = "throw"
    THEN Outcome(items, DefaultOrNull(defaultValue), pathInfo.error, "none", "none")
    ELSE IF ~pathInfo.found
    THEN Outcome(items, DefaultOrNull(defaultValue), "none", "none", pathInfo.warn)
    ELSE GetDeepValue(items,
                      _getDeep(pathInfo.rootValue, pathInfo.pathSegments, defaultValue),
                      defaultValue)

\* variant of get: a default given for a storage key that is not there is
\* stored under the key
get_StoresDefault(kind, items, address, defaultValue) ==
    IF indexOfDot(address) = -1
    THEN IF ~HasKey(items, address) /\ ~IsNullish(defaultValue)
         THEN IF adapterSetItem(kind, items, address, _serialize(defaultValue)).threw
              THEN Outcome(items, defaultValue, "BackendFailure", "none", "none")
              ELSE Outcome(adapterSetItem(kind, items, address,
                                          _serialize(defaultValue)).value,
                           defaultValue, "none", "none", "none")
         ELSE GetSimple(items, _getSimple(kind, items, address, defaultValue),
                        defaultValue)
    ELSE GetDeep(items,
                 _parseDeepPath(kind, items, address, indexOfDot(address), "get"),
                 defaultValue)

get(kind, items, address, defaultValue) ==
    IF indexOfDot(address) = -1
    THEN GetSimple(items, _getSimple(kind, items, address, defaultValue), defaultValue)
    ELSE GetDeep(items,
                 _parseDeepPath(kind, items, address, indexOfDot(address), "get"),
                 defaultValue)

\* variant of Written: no catch around the backend write
Written_NoCatch(items, r) ==
    IF r.threw
    THEN [Outcome(items, Undef, "none", "none", "none") EXCEPT !.escaped = TRUE]
    ELSE Outcome(r.value, Undef, "none", "none", "none")

\* a backend write (setItem, removeItem, clear) with the caller's catch
Written(items, r) ==
    IF r.threw THEN Outcome(items, Undef, "BackendFailure", "none", "none")
    ELSE Outcome(r.value, Undef, "none", "none", "none")

\* `this._saveToStorage(storageKey, rootValue)` with the caller's catch
SavedBack(items, saved) ==
    IF saved.status = "throw" THEN Outcome(items, Undef, saved.error, "none", "none")
    ELSE Outcome(saved.items, Undef, "none", "none", "none")

\* variant of SaveDeep: the root is saved in a `finally`, also when _setDeep threw
SaveDeep_Always(kind, items, storageKey, d) ==
    IF d.status = "throw"
    THEN Outcome(SavedBack(items, _saveToStorage(kind, items, storageKey, d.obj)).items,
                 Undef, d.error, d.error, "none")
    ELSE SavedBack(items, _saveToStorage(kind, items, storageKey, d.obj))

\* from the result d of _setDeep on: the throw caught, or the root saved
SaveDeep(kind, items, storageKey, d) ==
    IF d.status = "throw" THEN Outcome(items, Undef, d.error, d.error, "none")
    ELSE SavedBack(items, _saveToStorage(kind, items, storageKey, d.obj))

\* variant of WriteDeep: the root is read again from the backend right before
\* it is changed and saved
WriteDeep_Reloads(kind, items, pathInfo, value, remove, createPath) ==
    IF pathInfo.status = "throw"
    THEN Outcome(items, Undef, pathInfo.error, "none", "none")
    ELSE IF ~pathInfo.found
    THEN Outcome(items, Undef, "none", "none", pathInfo.warn)
    ELSE SaveDeep(kind, items, pathInfo.storageKey,
                  _setDeep(LoadedRoot(pathInfo.storageKey, pathInfo.pathSegments,
                                      adapterGetItem(kind, items, pathInfo.storageKey),
                                      "set").rootValue,
                           pathInfo.pathSegments, value, remove, createPath))

\* set or remove with a dot, from the path info on; remove and createPath are
\* the options handed to _setDeep
WriteDeep(kind, items, pathInfo, value, remove, createPath) ==
    IF pathInfo.status = "throw"
    THEN Outcome(items, Undef, pathInfo.error, "none", "none")
    ELSE IF ~pathInfo.found
    THEN Outcome(items, Undef, "none", "none", pathInfo.warn)
    ELSE SaveDeep(kind, items, pathInfo.storageKey,
                  _setDeep(pathInfo.rootValue, pathInfo.pathSegments, value,
                           remove, createPath))

\* createPath is options?.createPath: undefined when the caller passed none
set(kind, items, address, value, createPath) ==
    IF indexOfDot(address) = -1
    THEN Written(items, adapterSetItem(kind, items, address, _serialize(value)))
    ELSE WriteDeep(kind, items,
                   _parseDeepPath(kind, items, address, indexOfDot(address), "set"),
                   value, Undef, createPath)

\* variant of remove: the path is walked with createPath on
remove_CreatesPath(kind, items, address) ==
    IF indexOfDot(address) = -1
    THEN Written(items, adapterRemoveItem(kind, items, address))
    ELSE WriteDeep(kind, items,
                   _parseDeepPath(kind, items, address, indexOfDot(address), "remove"),
                   Undef, Bool(TRUE), Bool(TRUE))

remove(kind, items, address) ==
    IF indexOfDot(address) = -1
    THEN Written(items, adapterRemoveItem(kind, items, address))
    ELSE WriteDeep(kind, items,
                   _parseDeepPath(kind, items, address, indexOfDot(address), "remove"),
                   Undef, Bool(TRUE), Bool(FALSE))

\* has without a dot, with its catch
HasSimple(items, got) ==
    IF got.threw THEN Outcome(items, Bool(FALSE), "BackendFailure", "none", "none")
    ELSE Outcome(items, Bool(got.value # NoItem), "none", "none", "none")

\* variant of HasDeep: `!!this.get(key)` where the code has `!== null`
HasDeep_Truthy(items, g) ==
    IF g.escaped THEN Outcome(items, Bool(FALSE), "Escaped", g.error, g.warn)
    ELSE Outcome(items,
                 Bool(g.ret \notin {Null, Undef, Bool(FALSE), Num(0), Str("")}),
                 g.logged, g.error, g.warn)

\* `this.get(key) !== null`, with the catch of has around it
HasDeep(items, g) ==
    IF g.escaped THEN Outcome(items, Bool(FALSE), "Escaped", g.error, g.warn)
    ELSE Outcome(items, Bool(g.ret.t # "null"), g.logged, g.error, g.warn)

has(kind, items, address) ==
    IF indexOfDot(address) = -1
    THEN HasSimple(items, adapterGetItem(kind, items, address))
    ELSE HasDeep(items, get(kind, items, address, Undef))

clear(kind, items) == Written(items, adapterClear(kind, items))

\* ------------------------------------------------------ construction

\* A backend is an object on the heap; heap is the sequence of the backends
\* that exist and a reference is a position in it. What a constructor returns
\* is the heap after it and the object it built.

\* variant of Storadapt: the instance works on a copy of the backend, taken
\* when it is built
Storadapt_CopiesBackend(heap, adapterInstance) ==
    [heap |-> Append(heap, heap[adapterInstance]),
     self |-> [adapter |-> Len(heap) + 1]]

\* `constructor(adapter) { this.adapter = adapter }`: the reference is the
\* only field
Storadapt(heap, adapterInstance) ==
    [heap |-> heap, self |-> [adapter |-> adapterInstance]]

\* the argument of createStoradapt: a backend, or a function returning one
AdapterArg(ref) == [t |-> "adapter", ref |-> ref]
FactoryArg(ref) == [t |-> "function", returns |-> ref]

\* `typeof adapter === 'function' ? adapter() : adapter`
createStoradapt(heap, adapterArg) ==
    Storadapt(heap, IF adapterArg.t = "function" THEN adapterArg.returns
                    ELSE adapterArg.ref)

\* ------------------------------------------------------------ inputs

\* calls made in one run
MaxCalls == 2

KeyK == <<"k">>
KeyJ == <<"j">>
SegA == <<"a">>
SegB == <<"b">>

StorageKeys == {KeyK, KeyJ}

\* key segments and index segments, one with a leading zero
\* the segment '-1'
MinusOne == <<"-", "1">>

\* the index 1 written with a leading zero
ZeroOne == <<"0", "1">>

Segments == {SegA, SegB, <<"0">>, <<"1">>, <<"2">>, ZeroOne, MinusOne}

Paths ==
    {<<s>> : s \in Segments}
    \cup {<<SegA, SegB>>, <<SegB, SegA>>, <<SegA, <<"0">>>>, <<<<"0">>, SegA>>}
    \cup {<<SegA, <<"0">>, SegB>>, <<SegA, MinusOne>>, <<SegA, ZeroOne>>}

\* the address `key.seg.seg...`
RECURSIVE Join(_, _)
Join(head, path) ==
    IF Len(path) = 0 THEN head ELSE Join(head \o <<".">> \o Head(path), Tail(path))

DeepAddresses == {Join(KeyK, p) : p \in Paths} \cup {Join(KeyJ, <<SegA>>)}

\* doubled and trailing dots in the path, an empty storage key
OddAddresses == {<<"k", ".", "a", ".", ".", "b", ".">>, <<".", "a">>}

Addresses == StorageKeys \cup DeepAddresses \cup OddAddresses

\* values written at a deep address
DeepValues == {Str("x"), Null, Undef}

\* values written under a whole key
SeedValues ==
    {Str("x"), Num(1), Null, EmptyArr,
     Obj(SegA :> Str("x") @@ SegB :> Obj(SegA :> Num(1))),
     Arr(<<Str(""), Num(0)>>),
     Obj(SegA :> Arr(<<Obj(SegB :> Num(1)), Str("x")>>) @@ SegB :> Null),
     Arr(<<Obj(SegA :> Bool(FALSE)), Null>>)}

\* the createPath option of set: not passed, or true
CreatePathOptions == {Undef, Bool(TRUE)}

\* defaultValue of get: Undef is "no default given"
Defaults == {Undef, Str("d")}

\* ----------------------------------------------------- state machine

VARIABLES
    adapter,   \* "memory" or "faulty": the backend the facade was built over
    items,     \* the backend's entries, in insertion order
    call,      \* the call that has just returned, or NoCall
    calls,     \* calls made so far
    backends,  \* the heap of backends that several instances are built over
    facades,   \* the instances built so far, each with the backend it was given
    written,   \* per backend given: its most recent successful write
    race       \* two deep sets on one key, taken apart into their backend
               \* calls or made in both orders; or one traversal; or NoRace

vars == <<adapter, items, call, calls, backends, facades, written, race>>

NoRace == [pc |-> <<>>]

\* one instance over one backend, one call at a time
Alone == backends = <<>> /\ facades = <<>> /\ written = <<>> /\ race = NoRace

NoCall == [op |-> "none"]

\* createPath: the caller passed {createPath: true}
Call(op, address, value, createPath, defaultValue, out) ==
    [op |-> op, address |-> address, value |-> value, createPath |-> createPath,
     defaultValue |-> defaultValue, pre |-> items, out |-> out]

\* createStoradapt over an empty backend that works
Init ==
    /\ adapter = "memory"
    /\ items = <<>>
    /\ call = NoCall
    /\ calls = 0
    /\ Alone

Ready == call = NoCall /\ calls < MaxCalls

Done(c) ==
    /\ call' = c
    /\ items' = c.out.items
    /\ calls' = calls + 1
    /\ UNCHANGED <<adapter, backends, facades, written, race>>

Get ==
    \E a \in Addresses, d \in Defaults :
        Ready /\ Done(Call("get", a, Undef, FALSE, d, get(adapter, items, a, d)))

SetDeep ==
    \E a \in DeepAddresses \cup OddAddresses, v \in DeepValues, cp \in CreatePathOptions :
        Ready /\ Done(Call("set", a, v, cp = Bool(TRUE), Undef,
                           set(adapter, items, a, v, cp)))

SetKey ==
    \E a \in StorageKeys, v \in SeedValues :
        Ready /\ Done(Call("set", a, v, FALSE, Undef, set(adapter, items, a, v, Undef)))

Remove ==
    \E a \in Addresses :
        Ready /\ Done(Call("remove", a, Undef, FALSE, Undef, remove(adapter, items, a)))

Has ==
    \E a \in Addresses :
        Ready /\ Done(Call("has", a, Undef, FALSE, Undef, has(adapter, items, a)))

Clear == Ready /\ Done(Call("clear", <<>>, Undef, FALSE, Undef, clear(adapter, items)))

Key ==
    \E i \in 0..2 :
        Ready /\ Done(Call("key", <<>>, Num(i), FALSE, Undef, key(adapter, items, i)))

Length == Ready /\ Done(Call("length", <<>>, Undef, FALSE, Undef, length(adapter, items)))

\* the caller takes what the call returned; the facade keeps nothing of it
Return ==
    /\ call # NoCall
    /\ call' = NoCall
    /\ UNCHANGED <<adapter, items, calls, backends, facades, written, race>>

Next == Get \/ SetDeep \/ SetKey \/ Remove \/ Has \/ Clear \/ Key \/ Length \/ Return

Spec == Init /\ [][Next]_vars

\* createStoradapt over an empty backend that works, or over one whose every
\* method throws, which may hold an entry
InitEither ==
    /\ \/ adapter = "memory" /\ items = <<>>
       \/ adapter = "faulty"
          /\ items \in {<<>>, set("memory", <<>>, KeyK, Str("x"), Undef).items}
    /\ call = NoCall
    /\ calls = 0
    /\ Alone

SpecFaulty == InitEither /\ [][Next]_vars

\* ------------------------------------- several instances, one backend

\* instances built in one run
MaxFacades == 2

\* `createStoradapt(adapter)`, `createStoradapt(() => adapter)` and
\* `new Storadapt(adapter)`
CreationWays == {"adapter", "function", "new"}

SharedAddresses ==
    {KeyK, KeyJ, Join(KeyK, <<SegA>>), Join(KeyK, <<SegA, SegB>>)}

SharedValues == {Str("x"), Obj(SegA :> Num(1))}

\* nothing went to errorLogger or console.warn
Succeeded(out) == out.logged = "none" /\ out.warn = "none"

NoWrite == [op |-> "none", address |-> <<>>, value |-> Undef, by |-> 0, items |-> <<>>]

\* one empty backend that works, and no instance yet
SharedInit ==
    /\ adapter = "memory"
    /\ items = <<>>
    /\ call = NoCall
    /\ calls = 0
    /\ backends = <<[kind |-> "memory", items |-> <<>>]>>
    /\ facades = <<>>
    /\ written = <<NoWrite>>
    /\ race = NoRace

\* the object an instance is built as, by one of the three ways
Built(way) ==
    IF way = "new" THEN Storadapt(backends, 1)
    ELSE createStoradapt(backends, IF way = "function" THEN FactoryArg(1)
                                   ELSE AdapterArg(1))

\* one more instance over the backend
Create ==
    \E way \in CreationWays :
        /\ call = NoCall
        /\ Len(facades) < MaxFacades
        /\ backends' = Built(way).heap
        /\ facades' = Append(facades, [self |-> Built(way).self, over |-> 1, way |-> way])
        /\ UNCHANGED <<adapter, items, call, calls, written, race>>

\* `this.adapter` of instance i
StoreOf(i) == backends[facades[i].self.adapter]

SharedCall(i, op, address, value, createPath, defaultValue, out) ==
    [op |-> op, address |-> address, value |-> value, createPath |-> createPath,
     defaultValue |-> defaultValue, pre |-> StoreOf(i).items, out |-> out, via |-> i]

SharedDone(c) ==
    /\ call' = c
    /\ backends' = [backends EXCEPT ![facades[c.via].self.adapter].items = c.out.items]
    /\ written' =
           IF c.op \in {"set", "remove", "clear"} /\ Succeeded(c.out)
           THEN [written EXCEPT ![facades[c.via].over] =
                    [op |-> c.op, address |-> c.address, value |-> c.value,
                     by |-> c.via, items |-> c.out.items]]
           ELSE written
    /\ calls' = calls + 1
    /\ UNCHANGED <<adapter, items, facades, race>>

SharedSet ==
    \E i \in DOMAIN facades, a \in SharedAddresses, v \in SharedValues,
       cp \in CreatePathOptions :
        Ready /\ SharedDone(SharedCall(i, "set", a, v, cp = Bool(TRUE), Undef,
                                       set(StoreOf(i).kind, StoreOf(i).items, a, v, cp)))

SharedRemove ==
    \E i \in DOMAIN facades, a \in SharedAddresses :
        Ready /\ SharedDone(SharedCall(i, "remove", a, Undef, FALSE, Undef,
                                       remove(StoreOf(i).kind, StoreOf(i).items, a)))

SharedClear ==
    \E i \in DOMAIN facades :
        Ready /\ SharedDone(SharedCall(i, "clear", <<>>, Undef, FALSE, Undef,
                                       clear(StoreOf(i).kind, StoreOf(i).items)))

SharedGet ==
    \E i \in DOMAIN facades, a \in SharedAddresses, d \in Defaults :
        Ready /\ SharedDone(SharedCall(i, "get", a, Undef, FALSE, d,
                                       get(StoreOf(i).kind, StoreOf(i).items, a, d)))

SharedNext == Create \/ SharedSet \/ SharedRemove \/ SharedClear \/ SharedGet \/ Return

SpecShared == SharedInit /\ [][SharedNext]_vars

\* ------------------------------- two deep sets, backend call by call

RaceStores ==
    {<<>>} \cup {set("memory", <<>>, KeyK, v, Undef).items :
                    v \in {EmptyObj, EmptyArr, Str("x"),
                           Obj(SegA :> Str("x") @@ SegB :> Obj(SegA :> Num(1)))}}

\* the deep sets that race: set(address, value, {createPath})
RaceSets ==
    [address : {Join(KeyK, <<SegA>>), Join(KeyK, <<SegB>>),
                Join(KeyK, <<SegA, SegB>>), Join(KeyK, <<<<"0">>>>)},
     value : {Str("x"), Num(1)},
     createPath : CreatePathOptions]

Pending == [status |-> "pending"]

\* two sets to different paths of key k, neither begun, over a store that works
RaceInit ==
    /\ adapter = "memory"
    /\ items \in RaceStores
    /\ call = NoCall
    /\ calls = 0
    /\ backends = <<>>
    /\ facades = <<>>
    /\ written = <<>>
    /\ \E s1 \in RaceSets, s2 \in RaceSets :
          /\ s1.address # s2.address
          /\ race = [start |-> items, sets |-> <<s1, s2>>,
                     pc |-> <<"start", "start">>,
                     loaded |-> <<Pending, Pending>>,
                     out |-> <<Pending, Pending>>,
                     steps |-> <<>>]

\* the getItem of set w: _parseDeepPath reads and parses the root
Load ==
    \E w \in {1, 2} :
        /\ race.pc[w] = "start"
        /\ race' = [race EXCEPT
                       !.pc[w] = "loaded",
                       !.loaded[w] = _parseDeepPath(adapter, items, race.sets[w].address,
                                                    indexOfDot(race.sets[w].address), "set"),
                       !.steps = Append(@, <<"load", w>>)]
        /\ UNCHANGED <<adapter, items, call, calls, backends, facades, written>>

\* what the rest of set w does with the root it read
Stored(w) ==
    WriteDeep(adapter, items, race.loaded[w], race.sets[w].value, Undef,
              race.sets[w].createPath)

\* the rest of set w: _setDeep on the root it read, then the setItem
Store ==
    \E w \in {1, 2} :
        /\ race.pc[w] = "loaded"
        /\ items' = Stored(w).items
        /\ race' = [race EXCEPT
                       !.pc[w] = "done",
                       !.out[w] = Stored(w),
                       !.steps = Append(@, <<"store", w>>)]
        /\ UNCHANGED <<adapter, call, calls, backends, facades, written>>

RaceNext == Load \/ Store

SpecInterleaved == RaceInit /\ [][RaceNext]_vars

\* ------------------------------------ two deep sets, in both orders

CommuteStores ==
    {<<>>} \cup {set("memory", <<>>, KeyK, v, Undef).items : v \in SeedValues}

\* the two sets, both with {createPath: true}
FirstSets ==
    [address : {Join(KeyK, p) : p \in Paths}, value : {Str("x"), Undef},
     createPath : {Bool(TRUE)}]

SecondSets ==
    [address : {Join(KeyK, p) : p \in Paths}, value : {Num(1), Null},
     createPath : {Bool(TRUE)}]

\* a run of the two sets in one order: how many are made, the store, and what
\* each call left
NotBegun(its) == [done |-> 0, items |-> its, outs |-> <<>>]

\* two sets to different addresses of key k and a store; neither order begun
CommuteInit ==
    /\ adapter = "memory"
    /\ items \in CommuteStores
    /\ call = NoCall
    /\ calls = 0
    /\ backends = <<>>
    /\ facades = <<>>
    /\ written = <<>>
    /\ \E s1 \in FirstSets, s2 \in SecondSets :
          /\ s1.address # s2.address
          /\ race = [start |-> items, sets |-> <<s1, s2>>,
                     ab |-> NotBegun(items), ba |-> NotBegun(items)]

\* the run after one more call of set, s being the set that is made
After(run, s) ==
    [done |-> run.done + 1,
     items |-> set(adapter, run.items, s.address, s.value, s.createPath).items,
     outs |-> Append(run.outs,
                     set(adapter, run.items, s.address, s.value, s.createPath))]

\* the next call of the order sets[1], sets[2]
RunAB ==
    /\ "ab" \in DOMAIN race
    /\ race.ab.done < 2
    /\ race' = [race EXCEPT !.ab = After(@, race.sets[race.ab.done + 1])]
    /\ UNCHANGED <<adapter, items, call, calls, backends, facades, written>>

\* the next call of the order sets[2], sets[1]
RunBA ==
    /\ "ba" \in DOMAIN race
    /\ race.ba.done < 2
    /\ race' = [race EXCEPT !.ba = After(@, race.sets[2 - race.ba.done])]
    /\ UNCHANGED <<adapter, items, call, calls, backends, facades, written>>

CommuteNext == RunAB \/ RunBA

SpecCommute == CommuteInit /\ [][CommuteNext]_vars

\* ------------------------------------------- one traversal, by itself

\* what the shouldThrowError callback may be: absent, answering true,
\* answering false
Callbacks == {"none", "true", "false"}

\* a store, and a call of traversePath on the value under k that is not made
\* yet: a path, createPath on or off, and a callback
TraverseInit ==
    /\ adapter = "memory"
    /\ items \in CommuteStores
    /\ call = NoCall
    /\ calls = 0
    /\ backends = <<>>
    /\ facades = <<>>
    /\ written = <<>>
    /\ \E p \in Paths, cp \in BOOLEAN, cb \in Callbacks :
          race = [root |-> get(adapter, items, KeyK, Undef).ret, path |-> p,
                  createPath |-> cp, cb |-> cb, result |-> Pending]

\* traversePath(root, path, {createPath, shouldThrowError})
Traverse ==
    /\ "result" \in DOMAIN race
    /\ race.result = Pending
    /\ race' = [race EXCEPT
                   !.result = traversePath(race.root, race.path, FALSE,
                                           race.createPath, race.cb)]
    /\ UNCHANGED <<adapter, items, call, calls, backends, facades, written>>

\* get on the same path of key k, with or without a default
GetThrough ==
    \E d \in Defaults :
        /\ "result" \in DOMAIN race
        /\ call = NoCall
        /\ call' = Call("get", Join(KeyK, race.path), Undef, FALSE, d,
                        get(adapter, items, Join(KeyK, race.path), d))
        /\ UNCHANGED <<adapter, items, calls, backends, facades, written, race>>

TraverseNext == Traverse \/ GetThrough

SpecTraverse == TraverseInit /\ [][TraverseNext]_vars

\* ------------------------------------------------ reading the claims

\* the address has a deep path
IsDeep(address) == indexOfDot(address) # -1

StorageKeyOf(address) ==
    IF IsDeep(address) THEN slice(address, 0, indexOfDot(address)) ELSE address

PathOf(address) ==
    IF IsDeep(address)
    THEN parsePath(slice(address, indexOfDot(address) + 1, Len(address)))
    ELSE <<>>

\* get(k) with no default, on the working backend
RootOf(its, storageKey) == get("memory", its, storageKey, Undef).ret

\* get(address) with no default
Read(its, address) == get("memory", its, address, Undef).ret

IsContainer(v) == v.t \in {"array", "object"}

\* a value of the spec's Value Tree: no undefined, no hole
RECURSIVE InValueTree(_)
InValueTree(v) ==
    IF v.t = "array" THEN \A i \in DOMAIN v.e : InValueTree(v.e[i])
    ELSE IF v.t = "object" THEN \A k \in DOMAIN v.p : InValueTree(v.p[k])
    ELSE v.t \in {"string", "number", "boolean", "null"}

\* the path names a node of the tree: key segments are map lookups, index
\* segments are list positions
RECURSIVE ResolvesIn(_, _)
ResolvesIn(root, path) ==
    IF Len(path) = 0 THEN TRUE
    ELSE IF isArrayIndex(Head(path))
    THEN /\ root.t = "array"
         /\ parseInt(Head(path)) < Len(root.e)
         /\ ResolvesIn(root.e[parseInt(Head(path)) + 1], Tail(path))
    ELSE /\ root.t = "object"
         /\ Head(path) \in DOMAIN root.p
         /\ ResolvesIn(root.p[Head(path)], Tail(path))

\* the node a resolving path names
RECURSIVE Lookup(_, _)
Lookup(root, path) ==
    IF Len(path) = 0 THEN root
    ELSE IF isArrayIndex(Head(path))
    THEN Lookup(root.e[parseInt(Head(path)) + 1], Tail(path))
    ELSE Lookup(root.p[Head(path)], Tail(path))

\* the address names something stored
Resolves(its, address) ==
    /\ HasKey(its, StorageKeyOf(address))
    /\ IsDeep(address) => ResolvesIn(RootOf(its, StorageKeyOf(address)), PathOf(address))

\* the list with undefined appended until it has more than index entries
RECURSIVE Padded(_, _)
Padded(e, index) == IF Len(e) > index THEN e ELSE Padded(e \o <<Undef>>, index)

\* the tree with v placed at the path: containers on the way are kept when
\* they have the kind the segment asks for, and made when the slot is empty
RECURSIVE PlaceAt(_, _, _)
PlaceAt(root, path, v) ==
    IF Len(path) = 0 THEN v
    ELSE IF isArrayIndex(Head(path))
    THEN Arr([Padded(IF root.t = "array" THEN root.e ELSE <<>>, parseInt(Head(path)))
                 EXCEPT ![parseInt(Head(path)) + 1] = PlaceAt(@, Tail(path), v)])
    ELSE Obj(PutProp(IF root.t = "object" THEN root.p ELSE <<>>, Head(path),
                     PlaceAt(IF root.t = "object" /\ Head(path) \in DOMAIN root.p
                             THEN root.p[Head(path)] ELSE Undef,
                             Tail(path), v)))

IsPrefix(p, q) == Len(p) <= Len(q) /\ SubSeq(q, 1, Len(p)) = p

\* the path with every index segment written as its integer
Canonical(path) ==
    [i \in DOMAIN path |->
        IF isArrayIndex(path[i]) THEN IndexText(parseInt(path[i])) ELSE path[i]]

\* the call failed: an error was logged, or a warning
Failed(out) == out.logged # "none" \/ out.warn # "none"

DeepSet == call.op = "set" /\ IsDeep(call.address)

\* ------------------------------------------------------------ claims

C2_DefaultFallback ==
    (call.op = "get" /\ ~Resolves(call.pre, call.address))
        => /\ call.out.ret = (IF call.defaultValue = Undef THEN Null ELSE call.defaultValue)
           /\ ~call.out.escaped

\* a deep read with a default fell back to it after traversal raised
C2_Witness ==
    /\ call.op = "get" /\ IsDeep(call.address)
    /\ HasKey(call.pre, KeyK)
    /\ call.defaultValue = Str("d")
    /\ call.out.error = "IndexOutOfBounds"
    /\ call.out.ret = Str("d")

\* C3: a deep set or deep remove that fails leaves the backend as it was: the
\* value under the storage key is unchanged, an absent key is still absent.
C3_FailedWriteKeepsStore ==
    (call.op \in {"set", "remove"} /\ IsDeep(call.address) /\ Failed(call.out))
        => items = call.pre

\* a deep set on an absent key failed in traversal, and the key is still absent
C3_Witness ==
    /\ DeepSet /\ call.out.logged = "PropertyMissing"
    /\ ~HasKey(call.pre, KeyK) /\ ~HasKey(items, KeyK)
    /\ StorageKeyOf(call.address) = KeyK

\* C4: no facade call lets an error escape; over a backend whose every method
\* fails, get returns null or the default, has false, length 0, key null, and
\* set, remove and clear change nothing.
C4_NothingEscapes ==
    (call.op # "none")
        => /\ ~call.out.escaped
           /\ adapter = "faulty" =>
                /\ items = call.pre
                /\ call.out.logged # "none"
                /\ call.op = "get" => call.out.ret =
                       (IF IsNullish(call.defaultValue) THEN Null ELSE call.defaultValue)
                /\ call.op = "has" => call.out.ret = Bool(FALSE)
                /\ call.op = "length" => call.out.ret = Num(0)
                /\ call.op = "key" => call.out.ret = Null
                /\ call.op \in {"set", "remove", "clear"} => call.out.ret = Undef

\* a deep set was made on a failing backend that holds an entry
C4_Witness ==
    /\ adapter = "faulty" /\ DeepSet /\ items # <<>>
    /\ call.out.logged = "BackendFailure"

\* a deep set that succeeded on a root that was there
SetOnRoot ==
    /\ DeepSet /\ ~Failed(call.out)
    /\ HasKey(call.pre, StorageKeyOf(call.address))
    /\ Len(PathOf(call.address)) > 0

\* the root after the set is the root before it with the value placed
PlacedInRoot ==
    RootOf(items, StorageKeyOf(call.address)) =
        PlaceAt(RootOf(call.pre, StorageKeyOf(call.address)), PathOf(call.address),
                call.value)

\* C5 (as stated): a successful deep set(k.p, v) on an existing root changes
\* the root only at p: get(k) is the old root with v placed at p, and every
\* path that is neither a prefix nor an extension of p reads as before.
C5_SetFrame_Lexical ==
    SetOnRoot =>
        /\ PlacedInRoot
        /\ \A q \in Paths :
              (~IsPrefix(q, PathOf(call.address)) /\ ~IsPrefix(PathOf(call.address), q))
                 => Read(items, Join(StorageKeyOf(call.address), q))
                      = Read(call.pre, Join(StorageKeyOf(call.address), q))

\* every path that, canonically, is neither a prefix nor an extension of the
\* path written reads as it did before the call
ReadsAsBefore(storageKey, path) ==
    \A q \in Paths :
        (~IsPrefix(Canonical(q), path) /\ ~IsPrefix(path, Canonical(q)))
            => Read(items, Join(storageKey, q)) = Read(call.pre, Join(storageKey, q))

\* C5 (amended): the same, with paths compared after every index segment is
\* read as its integer ('01' and '1' are the same segment).
C5_SetFrame ==
    SetOnRoot =>
        /\ PlacedInRoot
        /\ ReadsAsBefore(StorageKeyOf(call.address), Canonical(PathOf(call.address)))

\* a set below one property of a stored map left the sibling property readable
C5_Witness ==
    /\ SetOnRoot
    /\ call.address = Join(KeyK, <<SegB, SegA>>)
    /\ items # call.pre
    /\ Read(call.pre, Join(KeyK, <<SegA>>)) = Str("x")
    /\ Read(items, Join(KeyK, <<SegA>>)) = Str("x")

\* the stored root is a primitive, or its kind disagrees with the first segment
RootMismatch ==
    /\ call.op \in {"get", "set", "remove"} /\ IsDeep(call.address)
    /\ Len(PathOf(call.address)) > 0
    /\ HasKey(call.pre, StorageKeyOf(call.address))
    /\ IF isArrayIndex(Head(PathOf(call.address)))
       THEN RootOf(call.pre, StorageKeyOf(call.address)).t # "array"
       ELSE RootOf(call.pre, StorageKeyOf(call.address)).t # "object"

\* C6: when the root under k is a primitive or of the other kind than the first
\* segment asks for, get(k.p) returns null or the default, set and remove change
\* nothing, nothing is raised, and get(k) still returns what it did.
C6_MismatchIsNoOp ==
    RootMismatch =>
        /\ items = call.pre
        /\ ~call.out.escaped
        /\ call.op = "get" => call.out.ret =
               (IF IsNullish(call.defaultValue) THEN Null ELSE call.defaultValue)
        /\ RootOf(items, StorageKeyOf(call.address))
               = RootOf(call.pre, StorageKeyOf(call.address))

\* a deep set with createPath met a stored string and left it alone
C6_Witness ==
    /\ RootMismatch /\ call.op = "set" /\ call.createPath
    /\ RootOf(call.pre, KeyK) = Str("x")
    /\ RootOf(items, KeyK) = Str("x")
    /\ call.out.warn = "ShapeMismatch"

\* C7: for every key k without a dot and every value v of the Value Tree,
\* set(k, v) followed by get(k) returns a value equal to v.
C7_SimpleRoundTrip ==
    (call.op = "set" /\ ~IsDeep(call.address) /\ InValueTree(call.value))
        => Read(items, call.address) = call.value

\* C8 (as stated): for every key whose root is a map or list and every path
\* that resolves in it, get(k.p) is the value found by walking p through get(k).
C8_ReadIsWalk_AnySlot ==
    (/\ call.op = "get" /\ IsDeep(call.address) /\ call.defaultValue = Undef
     /\ IsContainer(RootOf(call.pre, StorageKeyOf(call.address)))
     /\ ResolvesIn(RootOf(call.pre, StorageKeyOf(call.address)), PathOf(call.address)))
        => call.out.ret =
               Lookup(RootOf(call.pre, StorageKeyOf(call.address)), PathOf(call.address))

\* C8 (amended): the same for every path that resolves to anything but the
\* empty marker; a path that ends at a list slot holding the empty marker
\* (undefined) reads as null.
C8_ReadIsWalk ==
    (/\ call.op = "get" /\ IsDeep(call.address) /\ call.defaultValue = Undef
     /\ IsContainer(RootOf(call.pre, StorageKeyOf(call.address)))
     /\ ResolvesIn(RootOf(call.pre, StorageKeyOf(call.address)), PathOf(call.address)))
        => call.out.ret =
             (IF /\ Lookup(RootOf(call.pre, StorageKeyOf(call.address)),
                           PathOf(call.address)) = Undef
                 /\ isArrayIndex(PathOf(call.address)[Len(PathOf(call.address))])
              THEN Null
              ELSE Lookup(RootOf(call.pre, StorageKeyOf(call.address)),
                          PathOf(call.address)))

\* a read of three segments through a map, a list and a map found the value
C8_Witness ==
    /\ call.op = "get" /\ call.defaultValue = Undef
    /\ call.address = Join(KeyK, <<SegA, <<"0">>, SegB>>)
    /\ call.out.ret = Num(1)
    /\ call.out.logged = "none"

\* a deep set without createPath to a single index at or past the end of the
\* list stored under the key
PastEnd ==
    /\ DeepSet
    /\ Len(PathOf(call.address)) = 1
    /\ isArrayIndex(Head(PathOf(call.address)))
    /\ HasKey(call.pre, StorageKeyOf(call.address))
    /\ RootOf(call.pre, StorageKeyOf(call.address)).t = "array"
    /\ parseInt(Head(PathOf(call.address)))
           >= Len(RootOf(call.pre, StorageKeyOf(call.address)).e)

C10_PadsWithEmptyMarker ==
    (PastEnd /\ call.createPath /\ InValueTree(call.value))
        => /\ ~Failed(call.out)
           /\ RootOf(items, StorageKeyOf(call.address)).t = "array"
           /\ Len(RootOf(items, StorageKeyOf(call.address)).e)
                  = parseInt(Head(PathOf(call.address))) + 1
           /\ \A j \in 1..Len(RootOf(items, StorageKeyOf(call.address)).e) :
                  RootOf(items, StorageKeyOf(call.address)).e[j] =
                     (IF j <= Len(RootOf(call.pre, StorageKeyOf(call.address)).e)
                      THEN RootOf(call.pre, StorageKeyOf(call.address)).e[j]
                      ELSE IF j = parseInt(Head(PathOf(call.address))) + 1
                      THEN call.value
                      ELSE Undef)

\* index 2 was set in a stored empty list: two slots were skipped
C10_Witness ==
    /\ PastEnd /\ call.createPath
    /\ RootOf(call.pre, KeyK) = EmptyArr
    /\ RootOf(items, KeyK) = Arr(<<Undef, Undef, Str("x")>>)

\* C11: with no options, a deep set to the index equal to the length of the
\* stored list appends the element (items = [], set('items.0', 'first')
\* leaves items[0] = 'first').
C11_AppendsAtLength ==
    (/\ PastEnd /\ ~call.createPath /\ InValueTree(call.value)
     /\ parseInt(Head(PathOf(call.address)))
            = Len(RootOf(call.pre, StorageKeyOf(call.address)).e))
        => RootOf(items, StorageKeyOf(call.address)) =
               Arr(Append(RootOf(call.pre, StorageKeyOf(call.address)).e, call.value))

\* a deep set, called without the createPath option, whose path has an
\* intermediate node that is not there
MissingIntermediate ==
    /\ DeepSet /\ ~call.createPath
    /\ Len(PathOf(call.address)) >= 2
    /\ \/ ~HasKey(call.pre, StorageKeyOf(call.address))
       \/ ~ResolvesIn(RootOf(call.pre, StorageKeyOf(call.address)),
                      SubSeq(PathOf(call.address), 1, Len(PathOf(call.address)) - 1))

RemoveInBounds ==
    /\ call.op = "remove" /\ IsDeep(call.address)
    /\ Len(PathOf(call.address)) = 1
    /\ isArrayIndex(Head(PathOf(call.address)))
    /\ HasKey(call.pre, StorageKeyOf(call.address))
    /\ RootOf(call.pre, StorageKeyOf(call.address)).t = "array"
    /\ parseInt(Head(PathOf(call.address)))
           < Len(RootOf(call.pre, StorageKeyOf(call.address)).e)

\* C13: remove(k.i) for an index i within the stored list does not shrink the
\* list: its length is unchanged, get(k.i) afterwards yields the empty result
\* and every other slot is unchanged.
C13_RemoveLeavesHole ==
    RemoveInBounds =>
        /\ RootOf(items, StorageKeyOf(call.address)).t = "array"
        /\ Len(RootOf(items, StorageKeyOf(call.address)).e)
               = Len(RootOf(call.pre, StorageKeyOf(call.address)).e)
        /\ IsNullish(Read(items, call.address))
        /\ \A j \in 1..Len(RootOf(call.pre, StorageKeyOf(call.address)).e) :
               j # parseInt(Head(PathOf(call.address))) + 1
                  => RootOf(items, StorageKeyOf(call.address)).e[j]
                        = RootOf(call.pre, StorageKeyOf(call.address)).e[j]

\* a deep remove whose path resolves in the stored root and ends in a key
RemovesKey ==
    /\ call.op = "remove" /\ IsDeep(call.address)
    /\ Len(PathOf(call.address)) >= 1
    /\ HasKey(call.pre, StorageKeyOf(call.address))
    /\ ResolvesIn(RootOf(call.pre, StorageKeyOf(call.address)), PathOf(call.address))
    /\ ~isArrayIndex(PathOf(call.address)[Len(PathOf(call.address))])

\* the tree without the key the path ends in, everything else as it was
RECURSIVE WithoutKey(_, _)
WithoutKey(node, path) ==
    IF Len(path) = 1 THEN Obj(DelProp(node.p, Head(path)))
    ELSE IF isArrayIndex(Head(path))
    THEN Arr([node.e EXCEPT ![parseInt(Head(path)) + 1] = WithoutKey(@, Tail(path))])
    ELSE Obj([node.p EXCEPT ![Head(path)] = WithoutKey(@, Tail(path))])

\* C14: remove(k.p) where p ends in a key present in its parent map deletes
\* exactly that key: the parent is the old parent without it (the empty map if
\* it was the only key) and the rest of the root is unchanged.
C14_RemoveDeletesKey ==
    RemovesKey =>
        /\ ~Failed(call.out)
        /\ RootOf(items, StorageKeyOf(call.address)) =
               WithoutKey(RootOf(call.pre, StorageKeyOf(call.address)),
                          PathOf(call.address))

\* the only key of a nested map was removed and the map is now empty
C14_Witness ==
    /\ RemovesKey
    /\ call.address = Join(KeyK, <<SegB, SegA>>)
    /\ RootOf(call.pre, KeyK) = Obj(SegA :> Str("x") @@ SegB :> Obj(SegA :> Num(1)))
    /\ RootOf(items, KeyK) = Obj(SegA :> Str("x") @@ SegB :> EmptyObj)

\* the same deep remove made once more on the store the first one left
RemoveAgain == remove("memory", items, call.address)

SetOnAbsentKey ==
    /\ DeepSet /\ call.createPath
    /\ Len(PathOf(call.address)) >= 1
    /\ ~HasKey(call.pre, StorageKeyOf(call.address))

\* C16: a deep set with createPath: true on an absent storage key creates a
\* root list when the first path segment is an index and a root map otherwise.
C16_RootKindFromFirstSegment ==
    SetOnAbsentKey =>
        /\ ~Failed(call.out)
        /\ HasKey(items, StorageKeyOf(call.address))
        /\ RootOf(items, StorageKeyOf(call.address)).t =
               (IF isArrayIndex(Head(PathOf(call.address))) THEN "array" ELSE "object")

\* set('k.0.a', 'x', {createPath: true}) on an empty store stored a list
C16_Witness ==
    /\ SetOnAbsentKey
    /\ call.address = Join(KeyK, <<<<"0">>, SegA>>)
    /\ call.value = Str("x")
    /\ RootOf(items, KeyK) = Arr(<<Obj(SegA :> Str("x"))>>)

\* has on a deep address
DeepHas == call.op = "has" /\ IsDeep(call.address)

\* C17: has on a deep address is true exactly when get on it, without a
\* default, returns something other than null: false when the path is
\* absent or holds null, true when it holds false, 0 or the empty string.
C17_HasIsGetNonNull ==
    DeepHas =>
        /\ call.out.ret = Bool(Read(call.pre, call.address) # Null)
        /\ ~Resolves(call.pre, call.address) => call.out.ret = Bool(FALSE)
        /\ Resolves(call.pre, call.address) =>
              /\ Lookup(RootOf(call.pre, StorageKeyOf(call.address)),
                        PathOf(call.address)) = Null
                    => call.out.ret = Bool(FALSE)
              /\ Lookup(RootOf(call.pre, StorageKeyOf(call.address)),
                        PathOf(call.address)).t \in {"string", "number", "boolean"}
                    => call.out.ret = Bool(TRUE)

\* has was asked for a path that holds false, and answered true
C17_Witness ==
    /\ DeepHas
    /\ call.address = Join(KeyK, <<<<"0">>, SegA>>)
    /\ Read(call.pre, call.address) = Bool(FALSE)
    /\ call.out.ret = Bool(TRUE)

BothStored ==
    /\ race.pc = <<"done", "done">>
    /\ Succeeded(race.out[1]) /\ Succeeded(race.out[2])

\* each set read the root before the other wrote it
Overlapped ==
    /\ Len(race.steps) = 4
    /\ race.steps[1][1] = "load" /\ race.steps[2][1] = "load"

\* the set that wrote last, and the other one
LastSet == race.sets[race.steps[4][2]]
FirstSet == race.sets[3 - race.steps[4][2]]

\* C19: when both sets read the root before either writes it and both
\* complete without error, the store is left as the later setItem alone
\* makes it from the starting store: the value of the earlier set, unless it
\* was there at the start, is not in the final root. The facade does nothing
\* against it.
C19_LostUpdate ==
    (BothStored /\ Overlapped) =>
        /\ items = set(adapter, race.start, LastSet.address, LastSet.value,
                       LastSet.createPath).items
        /\ Read(race.start, FirstSet.address) # FirstSet.value
              => Read(items, FirstSet.address) # FirstSet.value

\* set(k.a, 'x') and set(k.b, 1) over k = {} both completed and k.a is gone
C19_Witness ==
    /\ BothStored /\ Overlapped
    /\ RootOf(race.start, KeyK) = EmptyObj
    /\ FirstSet.address = Join(KeyK, <<SegA>>) /\ FirstSet.value = Str("x")
    /\ LastSet.address = Join(KeyK, <<SegB>>) /\ LastSet.value = Num(1)
    /\ RootOf(items, KeyK) = Obj(SegB :> Num(1))


\* a deep set with {createPath: true} that got a root to work on
CreatingSet ==
    /\ DeepSet /\ call.createPath
    /\ _parseDeepPath("memory", call.pre, call.address,
                      indexOfDot(call.address), "set").status = "ok"
    /\ _parseDeepPath("memory", call.pre, call.address,
                      indexOfDot(call.address), "set").found

\* the root the set got from _parseDeepPath
RootGot ==
    _parseDeepPath("memory", call.pre, call.address,
                   indexOfDot(call.address), "set").rootValue

\* the path names a map or a list of the tree
ContainerAt(root, path) == ResolvesIn(root, path) /\ IsContainer(Lookup(root, path))

\* every container that is on the path in `after` and was not in `before` is
\* a list when the segment after it is an index and a map otherwise
KindsFollowNext(before, after, path) ==
    \A i \in 1..(Len(path) - 1) :
        (~ContainerAt(before, SubSeq(path, 1, i)) /\ ContainerAt(after, SubSeq(path, 1, i)))
            => Lookup(after, SubSeq(path, 1, i)).t =
                   (IF isArrayIndex(path[i + 1]) THEN "array" ELSE "object")

\* C20: with createPath: true, every intermediate container a traversal
\* creates at a position of the path is a list when the next segment is an
\* index segment and a map otherwise, whatever the segment at the position
\* itself is; seen in the root the traversal leaves and, when the set
\* succeeds, in the root that is stored.
C20_KindFromNextSegment ==
    CreatingSet =>
        /\ traversePath(RootGot, PathOf(call.address), TRUE, TRUE, "none").status = "ok"
              => KindsFollowNext(RootGot,
                                 traversePath(RootGot, PathOf(call.address),
                                              TRUE, TRUE, "none").node,
                                 PathOf(call.address))
        /\ ~Failed(call.out)
              => KindsFollowNext(RootGot, RootOf(items, StorageKeyOf(call.address)),
                                 PathOf(call.address))

\* set('k.a.0.b', 'x', {createPath: true}) on an empty store made a list under
\* the key segment a and a map under the index segment 0
C20_Witness ==
    /\ CreatingSet /\ ~Failed(call.out)
    /\ call.address = Join(KeyK, <<SegA, <<"0">>, SegB>>)
    /\ ~HasKey(call.pre, KeyK)
    /\ RootOf(items, KeyK) = Obj(SegA :> Arr(<<Obj(SegB :> Str("x"))>>))


\* the slot the segment names in the container is missing or holds null or
\* undefined
EmptyIn(parent, segment) ==
    IF isArrayIndex(segment)
    THEN /\ parent.t = "array"
         /\ \/ parseInt(segment) >= Len(parent.e)
            \/ IsNullish(parent.e[parseInt(segment) + 1])
    ELSE /\ parent.t = "object"
         /\ \/ segment \notin DOMAIN parent.p
            \/ IsNullish(parent.p[segment])

\* the path reaches, at position i, such a slot of a container of the right kind
EmptySlotAt(root, path, i) ==
    /\ ResolvesIn(root, SubSeq(path, 1, i - 1))
    /\ EmptyIn(Lookup(root, SubSeq(path, 1, i - 1)), path[i])

\* a deep set with {createPath: true} on a stored root
CreatingSetOnRoot ==
    /\ DeepSet /\ call.createPath
    /\ HasKey(call.pre, StorageKeyOf(call.address))

\* C21: with createPath: true, a set whose path passes through a non-terminal
\* slot that is missing or holds null or undefined succeeds and leaves a
\* container in that slot, for a list position and for a map property alike.
C21_FillsEmptySlot ==
    CreatingSetOnRoot =>
        \A i \in 1..(Len(PathOf(call.address)) - 1) :
            EmptySlotAt(RootOf(call.pre, StorageKeyOf(call.address)),
                        PathOf(call.address), i)
                => /\ ~Failed(call.out)
                   /\ ContainerAt(RootOf(items, StorageKeyOf(call.address)),
                                  SubSeq(PathOf(call.address), 1, i))


\* the node is there and is not what the segment steps into: not a list for
\* an index segment, not a map for a key segment
WrongKind(node, segment) ==
    /\ ~IsNullish(node)
    /\ IF isArrayIndex(segment) THEN node.t # "array" ELSE node.t # "object"

KindError(segment) == IF isArrayIndex(segment) THEN "NotAnArray" ELSE "NotAnObject"

\* the path resolves up to position i - 1, to a node of the wrong kind for
\* segment i
MismatchAt(root, path, i) ==
    /\ ResolvesIn(root, SubSeq(path, 1, i - 1))
    /\ WrongKind(Lookup(root, SubSeq(path, 1, i - 1)), path[i])

\* the three results all raise the error
Raised(walked, wrote, deleted, error) ==
    /\ walked.status = "throw" /\ walked.error = error
    /\ wrote.status = "throw" /\ wrote.error = error
    /\ deleted.status = "throw" /\ deleted.error = error

\* traversal to the end of the path, and write and delete at it, all raise
\* the error
AllRaise(root, path, error, createPath) ==
    Raised(traversePath(root, path, FALSE, createPath, "none"),
           _setDeep(root, path, Str("x"), Undef, Bool(createPath)),
           _setDeep(root, path, Undef, Bool(TRUE), Bool(createPath)),
           error)

\* a call with a deep address on a storage key that is there
DeepCallOnKey ==
    /\ call.op \in {"get", "set", "remove", "has"}
    /\ IsDeep(call.address)
    /\ HasKey(call.pre, StorageKeyOf(call.address))

\* where the path comes to a node of the wrong kind, the call reported the
\* error of that kind and changed nothing, and traversal, write and delete
\* raise it
WrongKindRaises(root, path) ==
    \A i \in 1..Len(path) :
        MismatchAt(root, path, i)
            => /\ items = call.pre
               /\ i >= 2 => call.out.error = KindError(path[i])
               /\ \A cp \in BOOLEAN : AllRaise(root, path, KindError(path[i]), cp)

\* C22: no index segment is resolved against a node that is not a list and
\* no key segment against a node that is not a map: where the path comes to
\* such a node, traversal, write and delete raise NotAnArray or NotAnObject,
\* with createPath on as with it off, the facade call reports that error
\* (below the root, which it checks itself first) and the store is left as
\* it was, the node neither replaced nor coerced.
C22_WrongKindIsAnError ==
    DeepCallOnKey =>
        WrongKindRaises(RootOf(call.pre, StorageKeyOf(call.address)),
                        PathOf(call.address))

\* set('k.a.0.b', v, {createPath: true}) met the string under a, raised
\* NotAnArray and left the string where it was
C22_Witness ==
    /\ DeepCallOnKey /\ call.op = "set" /\ call.createPath
    /\ call.address = Join(KeyK, <<SegA, <<"0">>, SegB>>)
    /\ Read(call.pre, Join(KeyK, <<SegA>>)) = Str("x")
    /\ call.out.error = "NotAnArray"
    /\ Read(items, Join(KeyK, <<SegA>>)) = Str("x")


\* a deep set of one segment, called without createPath, on a storage key
\* that is not there
FirstDeepSet ==
    /\ DeepSet /\ ~call.createPath
    /\ Len(PathOf(call.address)) = 1
    /\ ~HasKey(call.pre, StorageKeyOf(call.address))

\* C23: a deep set with a one-segment path on an absent storage key succeeds
\* without createPath: the root is made (an empty list for an index segment,
\* an empty map for a key segment), the value is written into it and stored,
\* and get on the same address returns the value.
C23_FirstWriteMakesRoot ==
    FirstDeepSet =>
        /\ ~Failed(call.out)
        /\ HasKey(items, StorageKeyOf(call.address))
        /\ RootOf(items, StorageKeyOf(call.address)).t =
               (IF isArrayIndex(PathOf(call.address)[1]) THEN "array" ELSE "object")
        /\ Read(items, call.address) = call.value


\* the path resolves up to position i - 1, to a container of the kind segment
\* i asks for, which has no such key or is no longer than the index
MissingAt(root, path, i) ==
    /\ ResolvesIn(root, SubSeq(path, 1, i - 1))
    /\ ~WrongKind(Lookup(root, SubSeq(path, 1, i - 1)), path[i])
    /\ ~IsNullish(Lookup(root, SubSeq(path, 1, i - 1)))
    /\ ~ResolvesIn(root, SubSeq(path, 1, i))

\* a deep remove on a storage key that is there
DeepRemoveOnKey ==
    /\ call.op = "remove" /\ IsDeep(call.address)
    /\ HasKey(call.pre, StorageKeyOf(call.address))

\* C24 (as stated): once the root under k exists with the kind the first
\* segment asks for, remove(k.p) of a deep property that is not there (the
\* last key missing, a segment before it missing, an index at or past the
\* length of the list) changes nothing and is no error.
C24_RemoveOfMissing_NoError ==
    DeepRemoveOnKey =>
        \A i \in 1..Len(PathOf(call.address)) :
            MissingAt(RootOf(call.pre, StorageKeyOf(call.address)),
                      PathOf(call.address), i)
                => items = call.pre /\ ~Failed(call.out)

\* C24 (amended): such a remove leaves the store as it was and lets nothing
\* escape; it is silent when what is missing is the last segment and that is
\* a key, and otherwise an error is logged: PropertyMissing for a key before
\* the last, IndexOutOfBounds for an index at or past the length.
C24_RemoveOfMissing ==
    DeepRemoveOnKey =>
        \A i \in 1..Len(PathOf(call.address)) :
            MissingAt(RootOf(call.pre, StorageKeyOf(call.address)),
                      PathOf(call.address), i)
                => /\ items = call.pre
                   /\ ~call.out.escaped
                   /\ call.out.warn = "none"
                   /\ call.out.logged =
                         (IF isArrayIndex(PathOf(call.address)[i])
                          THEN "IndexOutOfBounds"
                          ELSE IF i < Len(PathOf(call.address))
                          THEN "PropertyMissing" ELSE "none")

\* remove('k.a.b') on k = {b: 'x'} logged that a is missing and changed nothing
C24_Witness ==
    /\ DeepRemoveOnKey
    /\ call.address = Join(KeyK, <<SegA, SegB>>)
    /\ RootOf(call.pre, KeyK) = Obj(SegB :> Str("x"))
    /\ call.out.logged = "PropertyMissing"
    /\ items = call.pre


\* the storage keys of the entries
KeysOf(its) == {its[n].key : n \in DOMAIN its}

\* the text stored under a storage key that is there
StoredUnder(its, storageKey) == its[ItemOf(its, storageKey)].value

\* C25: get and has never change the backend: whatever the store and the
\* address, and whether the read succeeds or fails, the storage keys and the
\* value under each are the same after the call as before it.
C25_ReadsDoNotWrite ==
    call.op \in {"get", "has"} =>
        /\ KeysOf(items) = KeysOf(call.pre)
        /\ \A k \in KeysOf(call.pre) : StoredUnder(items, k) = StoredUnder(call.pre, k)
        /\ items = call.pre

\* a get with a default on a stored list failed in traversal, returned the
\* default and left the list as it was
C25_Witness ==
    /\ call.op = "get" /\ IsDeep(call.address)
    /\ call.defaultValue = Str("d")
    /\ call.out.error = "IndexOutOfBounds"
    /\ call.out.ret = Str("d")
    /\ RootOf(call.pre, KeyK) = Arr(<<Str(""), Num(0)>>)
    /\ RootOf(items, KeyK) = Arr(<<Str(""), Num(0)>>)


\* the entries under one storage key
OnlyKey(its, storageKey) == SelectSeq(its, LAMBDA e : e.key = storageKey)

\* the call made again on another store
Again(its) ==
    CASE call.op = "get" -> get("memory", its, call.address, call.defaultValue)
      [] call.op = "set" -> set("memory", its, call.address, call.value,
                                IF call.createPath THEN Bool(TRUE) ELSE Undef)
      [] call.op = "remove" -> remove("memory", its, call.address)
      [] call.op = "has" -> has("memory", its, call.address)

\* what the call returned and reported, and what it left under the key
SameOutcome(out, redone, storageKey) ==
    /\ out.ret = redone.ret
    /\ out.logged = redone.logged
    /\ out.warn = redone.warn
    /\ OnlyKey(out.items, storageKey) = OnlyKey(redone.items, storageKey)

\* C26: a get, set, remove or has works on the one storage key that is the
\* text before the first dot of its address: the entry under every other key
\* is there after the call exactly as before, the call does the same when
\* every other entry is taken out of the store, and a remove on a deep
\* address adds no storage key and deletes none.
C26_ConfinedToOneKey ==
    call.op \in {"get", "set", "remove", "has"} =>
        /\ \A other \in (KeysOf(call.pre) \cup KeysOf(items))
                        \ {StorageKeyOf(call.address)} :
              /\ HasKey(call.pre, other) /\ HasKey(items, other)
              /\ StoredUnder(items, other) = StoredUnder(call.pre, other)
        /\ SameOutcome(call.out,
                       Again(OnlyKey(call.pre, StorageKeyOf(call.address))),
                       StorageKeyOf(call.address))
        /\ (call.op = "remove" /\ IsDeep(call.address))
              => KeysOf(items) = KeysOf(call.pre)

\* a deep set changed what is under k while j was in the store, and j is as
\* it was
C26_Witness ==
    /\ DeepSet /\ ~Failed(call.out)
    /\ StorageKeyOf(call.address) = KeyK
    /\ HasKey(call.pre, KeyJ)
    /\ HasKey(items, KeyK)
    /\ OnlyKey(items, KeyK) # OnlyKey(call.pre, KeyK)
    /\ StoredUnder(items, KeyJ) = StoredUnder(call.pre, KeyJ)


\* the path has the segment '-1' at position i, where it comes to a list
MinusOneOnList(root, path, i) ==
    /\ path[i] = MinusOne
    /\ ResolvesIn(root, SubSeq(path, 1, i - 1))
    /\ Lookup(root, SubSeq(path, 1, i - 1)).t = "array"

\* where the path has '-1' on a list, the call reported NotAnObject, and
\* traversal, write and delete raise it
MinusOneRaises(root, path) ==
    \A i \in 1..Len(path) :
        MinusOneOnList(root, path, i)
            => /\ i >= 2 => call.out.error = "NotAnObject"
               /\ \A cp \in BOOLEAN : AllRaise(root, path, "NotAnObject", cp)

FailsAsAsked(t, cb) ==
    /\ t.status = (IF cb = "false" THEN "suppressed" ELSE "throw")
    /\ t.calls = (IF cb = "none" THEN 0 ELSE 1)
    /\ cb = "false" => t.value = Undef

\* the traversal is made
Traversed == race.result # Pending

\* the same traversal without a callback
Uncalled == traversePath(race.root, race.path, FALSE, race.createPath, "none")

\* a deep get that reached traversal
TraversingGet ==
    /\ call.op = "get" /\ DeepCallOnKey
    /\ _validateFirstSegment(RootOf(call.pre, StorageKeyOf(call.address)),
                             PathOf(call.address)[1])

\* C28: when a step of a traversal fails, the error goes to the caller if
\* the shouldThrowError callback is absent or answers true; if it answers
\* false the traversal ends there and returns undefined without raising,
\* and the callback has received the error once; the callback changes
\* neither whether the traversal fails nor the error. Seen through get,
\* whose callback answers false exactly when a default is given: with a
\* default nothing is logged and the default comes back, without one the
\* error is logged.
C28_CallbackDecides ==
    /\ Traversed =>
          /\ race.result.status # "ok" => FailsAsAsked(race.result, race.cb)
          /\ (race.result.status = "ok") = (Uncalled.status = "ok")
          /\ race.result.error = Uncalled.error
    /\ (TraversingGet /\ call.out.error # "none") =>
          IF call.defaultValue = Undef
          THEN call.out.logged = call.out.error /\ call.out.ret = Null
          ELSE call.out.logged = "none" /\ call.out.ret = call.defaultValue

\* over k = {a: 'x', b: {a: 1}} the traversal of a.b with a callback that
\* answers false met the string under a, called the callback once and
\* returned undefined; get('k.a.b', {defaultValue: 'd'}) logged nothing and
\* returned the default
C28_Witness ==
    /\ Traversed
    /\ race.path = <<SegA, SegB>> /\ race.cb = "false"
    /\ race.root = Obj(SegA :> Str("x") @@ SegB :> Obj(SegA :> Num(1)))
    /\ race.result.status = "suppressed"
    /\ race.result.error = "NotAnObject"
    /\ race.result.calls = 1
    /\ race.result.value = Undef
    /\ TraversingGet
    /\ call.defaultValue = Str("d")
    /\ call.out.error = "NotAnObject"
    /\ call.out.logged = "none"
    /\ call.out.ret = Str("d")

\* neither path is a prefix of the other, index segments taken as integers
DifferentLocations(p, q) ==
    /\ ~IsPrefix(Canonical(p), Canonical(q))
    /\ ~IsPrefix(Canonical(q), Canonical(p))

\* both calls of the run are made and neither logged or warned
BothSucceeded(run) ==
    /\ run.done = 2
    /\ Succeeded(run.outs[1]) /\ Succeeded(run.outs[2])

\* both orders are run to their end, on two different locations
BothOrdersRun ==
    /\ race.ab.done = 2 /\ race.ba.done = 2
    /\ DifferentLocations(PathOf(race.sets[1].address), PathOf(race.sets[2].address))

\* C29: two deep sets with createPath: true on one storage key, to
\* locations of which neither is a prefix of the other, commute: if both
\* succeed in one order, both succeed in the other and the stored root is
\* the same at the end.
C29_SetsCommute ==
    BothOrdersRun =>
        /\ BothSucceeded(race.ab) = BothSucceeded(race.ba)
        /\ BothSucceeded(race.ab)
              => RootOf(race.ab.items, KeyK) = RootOf(race.ba.items, KeyK)

\* set(k.a.b, 'x') and set(k.b.a, 1) on an empty store gave the same root in
\* both orders
C29_Witness ==
    /\ BothOrdersRun
    /\ BothSucceeded(race.ab) /\ BothSucceeded(race.ba)
    /\ race.start = <<>>
    /\ race.sets[1].address = Join(KeyK, <<SegA, SegB>>)
    /\ race.sets[2].address = Join(KeyK, <<SegB, SegA>>)
    /\ race.sets[1].value = Str("x") /\ race.sets[2].value = Num(1)
    /\ RootOf(race.ab.items, KeyK) =
           Obj(SegA :> Obj(SegB :> Str("x")) @@ SegB :> Obj(SegA :> Num(1)))
    /\ RootOf(race.ba.items, KeyK) = RootOf(race.ab.items, KeyK)

\* the path with '1' for every '01'
WithOne(path) == [i \in DOMAIN path |-> IF path[i] = ZeroOne THEN <<"1">> ELSE path[i]]

\* the address with '1' for every '01' in its path
OneFor01(address) == Join(StorageKeyOf(address), WithOne(PathOf(address)))

\* a deep call whose path has the segment '01'
Has01 ==
    /\ call.op \in {"get", "set"} /\ IsDeep(call.address)
    /\ \E i \in DOMAIN PathOf(call.address) : PathOf(call.address)[i] = ZeroOne

\* C30: index segments that denote the same integer name the same list
\* slot: a segment with leading zeros is an index segment ('01' is 1, as
\* '007' is 7), so a set with createPath: true through '01' does what the
\* same set through '1' does, get on the address with '1' then returns the
\* value, get through '01' returns what get through '1' returns, and no map
\* gets a property named '01'.
C30_LeadingZerosAreIndexes ==
    Has01 =>
        /\ (call.op = "set" /\ call.createPath) =>
              /\ SameOutcome(call.out,
                             set("memory", call.pre, OneFor01(call.address),
                                 call.value, Bool(TRUE)),
                             StorageKeyOf(call.address))
              /\ ~Failed(call.out) =>
                    /\ InValueTree(call.value)
                          => Read(items, OneFor01(call.address)) = call.value
                    /\ \A i \in DOMAIN PathOf(call.address) :
                          PathOf(call.address)[i] = ZeroOne
                              => Lookup(RootOf(items, StorageKeyOf(call.address)),
                                        SubSeq(PathOf(call.address), 1, i - 1)).t = "array"
        /\ call.op = "get" =>
              call.out.ret = get("memory", call.pre, OneFor01(call.address),
                                 call.defaultValue).ret

\* set('k.a.01', 'x', {createPath: true}) on an empty store made a list under
\* a, and get('k.a.1') returns 'x'
C30_Witness ==
    /\ Has01 /\ call.op = "set" /\ call.createPath /\ ~Failed(call.out)
    /\ call.address = Join(KeyK, <<SegA, ZeroOne>>)
    /\ call.pre = <<>>
    /\ RootOf(items, KeyK) = Obj(SegA :> Arr(<<Undef, Str("x")>>))
    /\ Read(items, Join(KeyK, <<SegA, <<"1">>>>)) = Str("x")

====
